---------------------------- MODULE Spec2Model ----------------------------
(***************************************************************************)
(* fastaqc: the check pipeline of `fastaqc info` (src/fastaqc/main.py) and *)
(* the alphabet tables it classifies against (src/fastaqc/alphabet.py).    *)
(*                                                                         *)
(* A FASTA record is the sequence of its characters (one-character         *)
(* strings).  The stats dictionary is a function from keys to values; a    *)
(* key is the pair <<first character, rest>> of its Python string, so that *)
(* str.startswith('_') is a test on the key and not a table of names.      *)
(***************************************************************************)
EXTENDS Integers, Sequences, FiniteSets, TLC

VARIABLES file, checks, rec, ci, pc, error, stats

vars == <<file, checks, rec, ci, pc, error, stats>>

---------------------------------------------------------------------------
(* Bounds of the model. *)

\* longest record of a one-record file
MaxLen == 3
\* most records of a file drawn from SampleSeqs
MaxRecords == 3
\* most records of a file run through a reordered check list
ReorderedRecords == 2

---------------------------------------------------------------------------
(* alphabet.py *)

_dna_unamb_chars == <<"A","T","G","C">>
_rna_unamb_chars == <<"A","U","G","C">>
_aa_unamb_chars == <<"A","C","D","E","F","G","H","I","K","L","M","N","P","Q","R","S","T","V","W","Y">>
_aa_nc_unamb_chars == <<"A","C","D","E","F","G","H","I","K","L","M","N","P","Q","R","S","T","V","W","Y","O","U">>
_dna_amb_chars == <<"N","R","Y","S","W","K","M","B","D","H","V">>
_rna_amb_chars == _dna_unamb_chars
_aa_amb_chars == <<"X","B","Z","J">>
_dna_special_chars == <<"-">>
_rna_special_chars == _dna_special_chars
_aa_special_chars == <<"*","-">>

\* Python's set(list): the distinct elements of a list
set(l) == {l[i] : i \in DOMAIN l}

\* Python's list(set): every element once, in an order the language does not
\* fix; nothing below depends on the order.
RECURSIVE list(_)
list(S) ==
  IF S = {} THEN <<>>
  ELSE LET x == CHOOSE y \in S : TRUE IN <<x>> \o list(S \ {x})

\* Alphabet.__init__
AlphabetInit(name, unambiguous_chars, ambiguous_chars, special_chars) ==
  [ name |-> name,
    unambiguous_chars |-> unambiguous_chars,
    ambiguous_chars |-> ambiguous_chars,
    special_chars |-> special_chars,
    all_chars |-> unambiguous_chars \o ambiguous_chars \o special_chars ]

Alphabet_DNA == AlphabetInit("DNA", _dna_unamb_chars, _dna_amb_chars, _dna_special_chars)
Alphabet_RNA == AlphabetInit("RNA", _rna_unamb_chars, _rna_amb_chars, _rna_special_chars)
Alphabet_AA == AlphabetInit("AA", _aa_unamb_chars, _aa_amb_chars, _aa_special_chars)
Alphabet_AA_NC == AlphabetInit("AA_NC", _aa_nc_unamb_chars, _aa_amb_chars, _aa_special_chars)
Alphabet_OTHER ==
  AlphabetInit("OTHER",
    list(set(_dna_unamb_chars \o _rna_unamb_chars \o _aa_unamb_chars
             \o _dna_amb_chars \o _rna_amb_chars)),
    _aa_amb_chars,
    list(set(_dna_special_chars \o _rna_special_chars \o _aa_special_chars)))

Alphabet == {Alphabet_DNA, Alphabet_RNA, Alphabet_AA, Alphabet_AA_NC, Alphabet_OTHER}

---------------------------------------------------------------------------
(* Keys of the stats dictionary. *)

k_filename == <<"f", "ilename">>
k_sequences == <<"s", "equences">>
k_type_counts == <<"t", "ype_counts">>
k_special_char_count == <<"s", "pecial_char_count">>
k_ambiguous_char_count == <<"a", "mbiguous_char_count">>
k_unknown_char_count == <<"u", "nknown_char_count">>
k_character_distribution == <<"_", "character_distribution">>
k_character_positions == <<"_", "character_positions">>
k_type == <<"_", "type">>
k_type_flags == <<"_", "type_flags">>
k_category_name == <<"_", "category_name">>

\* str.startswith with a one-character prefix
startswith(k, prefix) == k[1] = prefix

\* the empty dict
EmptyDict == [x \in {} |-> 0]

\* d[k] = v on a dict
put(d, k, v) == (k :> v) @@ d

\* the same dict without the keys of ks
remove(d, ks) == [k \in DOMAIN d \ ks |-> d[k]]

\* the outcome of one check: whether it raised, and the dictionary it leaves
Ok(st) == [raised |-> FALSE, stats |-> st]
Raised(st) == [raised |-> TRUE, stats |-> st]

---------------------------------------------------------------------------
(* Strings. *)

\* UpperChar with the case conversion forgotten
UpperChar_identity(c) == c

\* str.upper on one character: the letters of the input universe that have
\* an upper-case form; every other character is its own.
UpperChar(c) ==
  CASE c = "a" -> "A"
    [] c = "c" -> "C"
    [] c = "g" -> "G"
    [] c = "t" -> "T"
    [] c = "u" -> "U"
    [] c = "n" -> "N"
    [] OTHER -> c

\* record.seq.upper()
upper(seq) == [i \in 1..Len(seq) |-> UpperChar(seq[i])]

\* the three flag strings in the order sorted() gives them
FlagOrder == <<"ambiguous", "special", "unambiguous">>

\* sorted(flags)
sorted(flags) == SelectSeq(FlagOrder, LAMBDA f : f \in flags)

\* ",".join(l)
RECURSIVE join(_, _)
join(sep, l) ==
  IF l = <<>> THEN ""
  ELSE IF Len(l) = 1 THEN l[1]
  ELSE l[1] \o sep \o join(sep, Tail(l))

\* "{} ({})".format(name, joined)
format(name, joined) == name \o " (" \o joined \o ")"

---------------------------------------------------------------------------
(* main.py: helpers of the checks. *)

\* assert '<key>' in stats: TRUE when the assertion passes.  The value the
\* helper returns is then stats[<key>].
assert_character_distribution_available(st) == k_character_distribution \in DOMAIN st

assert_sequence_type_available(st) == k_type \in DOMAIN st

assert_sequence_type_flags_available(st) == k_type_flags \in DOMAIN st

assert_sequence_category_name_available(st) == k_category_name \in DOMAIN st

\* contains: some character of the list is a key of dist
contains(dist, characters) ==
  \E i \in DOMAIN characters : characters[i] \in DOMAIN dist

\* contains_only: remaining starts at len(dist) and loses one for every
\* ENTRY of the list that is a key of dist (a character listed twice is
\* subtracted twice).
contains_only(dist, characters) ==
  LET remaining == Cardinality(DOMAIN dist)
                   - Cardinality({i \in DOMAIN characters : characters[i] \in DOMAIN dist})
  IN remaining = 0

\* counts[c] = counts[c] + 1, from 0 when c is new
tally(counts, c) ==
  put(counts, c, (IF c \in DOMAIN counts THEN counts[c] ELSE 0) + 1)

\* the loop of compute_character_distribution from position i on
RECURSIVE distribution_loop(_, _, _)
distribution_loop(s, i, distribution) ==
  IF i > Len(s) THEN distribution
  ELSE distribution_loop(s, i + 1, tally(distribution, s[i]))

\* the loop of compute_character_positions from position i on (enumerate
\* counts from 0)
RECURSIVE positions_loop(_, _, _)
positions_loop(s, i, positions) ==
  IF i > Len(s) THEN positions
  ELSE LET c == s[i]
           old == IF c \in DOMAIN positions THEN positions[c] ELSE <<>>
       IN positions_loop(s, i + 1, put(positions, c, Append(old, i - 1)))

\* count_loop adding the occurrences of the character in the record
\* instead of one per record
RECURSIVE count_loop_occurrences(_, _, _, _)
count_loop_occurrences(chars, i, c_dist, counts) ==
  IF i > Len(chars) THEN counts
  ELSE count_loop_occurrences(chars, i + 1, c_dist,
         IF chars[i] \in DOMAIN c_dist
           THEN put(counts, chars[i],
                    (IF chars[i] \in DOMAIN counts THEN counts[chars[i]] ELSE 0)
                    + c_dist[chars[i]])
           ELSE counts)

\* the loop of _count over the list chars from entry i on
RECURSIVE count_loop(_, _, _, _)
count_loop(chars, i, c_dist, counts) ==
  IF i > Len(chars) THEN counts
  ELSE count_loop(chars, i + 1, c_dist,
                  IF chars[i] \in DOMAIN c_dist THEN tally(counts, chars[i]) ELSE counts)

\* the loop of count_sequences_with_unknown_characters over the keys of
\* c_dist still to visit (each key once, in any order)
RECURSIVE unknown_loop(_, _, _)
unknown_loop(todo, chars, counts) ==
  IF todo = {} THEN counts
  ELSE LET c == CHOOSE x \in todo : TRUE
       IN unknown_loop(todo \ {c}, chars,
                       IF c \notin chars THEN tally(counts, c) ELSE counts)

\* stats[fieldname][category_name], both created empty when absent
WithCategory(st, fieldname, category_name) ==
  LET field == IF fieldname \in DOMAIN st THEN st[fieldname] ELSE EmptyDict
  IN put(st, fieldname,
         IF category_name \in DOMAIN field THEN field
         ELSE put(field, category_name, EmptyDict))

---------------------------------------------------------------------------
(* main.py: the checks.  Each takes the record and the stats dictionary and *)
(* gives the outcome: the dictionary it leaves, and whether it raised.      *)

\* count overwriting the counter instead of adding to it
count_set_one(record, st) == Ok(put(st, k_sequences, 1))

count(record, st) ==
  LET st1 == IF k_sequences \notin DOMAIN st THEN put(st, k_sequences, 0) ELSE st
  IN Ok(put(st1, k_sequences, st1[k_sequences] + 1))

compute_character_distribution(record, st) ==
  Ok(put(st, k_character_distribution, distribution_loop(upper(record), 1, EmptyDict)))

compute_character_positions(record, st) ==
  Ok(put(st, k_character_positions, positions_loop(upper(record), 1, EmptyDict)))

detect_sequence_type(record, st) ==
  IF ~assert_character_distribution_available(st) THEN Raised(st)
  ELSE LET c_dist == st[k_character_distribution]
       IN Ok(put(st, k_type,
                 IF contains_only(c_dist, Alphabet_DNA.all_chars) THEN Alphabet_DNA
                 ELSE IF contains_only(c_dist, Alphabet_RNA.all_chars) THEN Alphabet_RNA
                 ELSE IF contains_only(c_dist, Alphabet_AA.all_chars) THEN Alphabet_AA
                 ELSE Alphabet_OTHER))

\* detect_ambiguous_and_special_characters testing the special characters
\* only when no ambiguous one was found (an elif for the second if)
detect_ambiguous_and_special_characters_elif(record, st) ==
  IF ~assert_character_distribution_available(st) THEN Raised(st)
  ELSE IF ~assert_sequence_type_available(st) THEN Raised(st)
  ELSE LET c_dist == st[k_character_distribution]
           alphabet == st[k_type]
           type_flags ==
             IF contains_only(c_dist, alphabet.unambiguous_chars) THEN {"unambiguous"}
             ELSE IF contains(c_dist, alphabet.ambiguous_chars) THEN {"ambiguous"}
             ELSE IF contains(c_dist, alphabet.special_chars) THEN {"special"}
             ELSE {}
       IN Ok(put(st, k_type_flags, type_flags))

detect_ambiguous_and_special_characters(record, st) ==
  IF ~assert_character_distribution_available(st) THEN Raised(st)
  ELSE IF ~assert_sequence_type_available(st) THEN Raised(st)
  ELSE LET c_dist == st[k_character_distribution]
           alphabet == st[k_type]
           type_flags ==
             IF contains_only(c_dist, alphabet.unambiguous_chars) THEN {"unambiguous"}
             ELSE (IF contains(c_dist, alphabet.ambiguous_chars) THEN {"ambiguous"} ELSE {})
                  \cup (IF contains(c_dist, alphabet.special_chars) THEN {"special"} ELSE {})
       IN Ok(put(st, k_type_flags, type_flags))

set_sequence_category_name(record, st) ==
  IF ~assert_sequence_type_available(st) THEN Raised(st)
  ELSE IF ~assert_sequence_type_flags_available(st) THEN Raised(st)
  ELSE LET alphabet == st[k_type]
           flags == st[k_type_flags]
           name == format(alphabet.name, join(",", sorted(flags)))
       IN Ok(put(st, k_category_name, name))

\* count_sequence_types creating type_counts before it asserts
count_sequence_types_write_first(record, st) ==
  LET st1 == IF k_type_counts \notin DOMAIN st THEN put(st, k_type_counts, EmptyDict) ELSE st
  IN IF ~assert_sequence_type_available(st1) THEN Raised(st1)
     ELSE IF ~assert_sequence_type_flags_available(st1) THEN Raised(st1)
     ELSE IF ~assert_sequence_category_name_available(st1) THEN Raised(st1)
     ELSE Ok(put(st1, k_type_counts, tally(st1[k_type_counts], st1[k_category_name])))

count_sequence_types(record, st) ==
  IF ~assert_sequence_type_available(st) THEN Raised(st)
  ELSE IF ~assert_sequence_type_flags_available(st) THEN Raised(st)
  ELSE IF ~assert_sequence_category_name_available(st) THEN Raised(st)
  ELSE LET type == st[k_category_name]
           st1 == IF k_type_counts \notin DOMAIN st THEN put(st, k_type_counts, EmptyDict) ELSE st
       IN Ok(put(st1, k_type_counts, tally(st1[k_type_counts], type)))

_count(st, fieldname, chars) ==
  IF ~assert_sequence_category_name_available(st) THEN Raised(st)
  ELSE IF ~assert_character_distribution_available(st) THEN Raised(st)
  ELSE LET category_name == st[k_category_name]
           c_dist == st[k_character_distribution]
           st1 == WithCategory(st, fieldname, category_name)
           counts == count_loop(chars, 1, c_dist, st1[fieldname][category_name])
       IN Ok(put(st1, fieldname, put(st1[fieldname], category_name, counts)))

count_sequences_with_special_characters(record, st) ==
  IF ~assert_sequence_type_available(st) THEN Raised(st)
  ELSE _count(st, k_special_char_count, st[k_type].special_chars)

count_sequences_with_ambiguous_characters(record, st) ==
  IF ~assert_sequence_type_available(st) THEN Raised(st)
  ELSE _count(st, k_ambiguous_char_count, st[k_type].ambiguous_chars)

count_sequences_with_unknown_characters(record, st) ==
  IF ~assert_sequence_category_name_available(st) THEN Raised(st)
  ELSE IF ~assert_sequence_type_available(st) THEN Raised(st)
  ELSE IF ~assert_character_distribution_available(st) THEN Raised(st)
  ELSE LET category_name == st[k_category_name]
           alphabet == st[k_type]
           c_dist == st[k_character_distribution]
           st1 == WithCategory(st, k_unknown_char_count, category_name)
           chars == set(alphabet.all_chars)
           counts == unknown_loop(DOMAIN c_dist, chars, st1[k_unknown_char_count][category_name])
       IN Ok(put(st1, k_unknown_char_count,
                 put(st1[k_unknown_char_count], category_name, counts)))

\* clear_tempary_fields deleting only the first key it collected
clear_tempary_fields_first(record, st) ==
  LET for_removal == {k \in DOMAIN st : startswith(k, "_")}
  IN Ok(IF for_removal = {} THEN st
        ELSE remove(st, {CHOOSE k \in for_removal : TRUE}))

clear_tempary_fields(record, st) ==
  LET for_removal == {k \in DOMAIN st : startswith(k, "_")}
  IN Ok(remove(st, for_removal))

\* the list `checks` of info
Checks ==
  << "count",
     "compute_character_distribution",
     "compute_character_positions",
     "detect_sequence_type",
     "detect_ambiguous_and_special_characters",
     "set_sequence_category_name",
     "count_sequence_types",
     "count_sequences_with_special_characters",
     "count_sequences_with_ambiguous_characters",
     "count_sequences_with_unknown_characters",
     "clear_tempary_fields" >>

---------------------------------------------------------------------------
(* Inputs: the records SeqIO.parse yields for the file. *)

\* the characters records are written in
Chars == {"A", "C", "G", "T", "U", "N", "X", "-", "*", "?", "a"}

\* every record of at most n characters
SeqsUpTo(n) == UNION {[1..m -> Chars] : m \in 0..n}

\* records that share classes, labels and characters
SampleSeqs ==
  { <<"-", "-">>, <<"A", "-">>, <<"N", "N", "-">>, <<"A", "N">>,
    <<"*", "X">>, <<"U", "T">>, <<"U">>, <<"?">> }

\* the four-record file ACGT, ACGU, ACGN, XYZ*
EndToEndFile ==
  << <<"A","C","G","T">>, <<"A","C","G","U">>, <<"A","C","G","N">>, <<"X","Y","Z","*">> >>

\* files of at most n records, each one of SampleSeqs
FilesUpTo(n) == UNION {[1..m -> SampleSeqs] : m \in 0..n}

Files ==
  {<<s>> : s \in SeqsUpTo(MaxLen)} \cup FilesUpTo(MaxRecords) \cup {EndToEndFile}

\* the check list with its entry i left out
Without(l, i) == [j \in 1..(Len(l) - 1) |-> IF j < i THEN l[j] ELSE l[j + 1]]

\* the check list with its entries i and i+1 exchanged
Swapped(l, i) ==
  [j \in 1..Len(l) |-> IF j = i THEN l[i + 1] ELSE IF j = i + 1 THEN l[i] ELSE l[j]]

\* the list of info, and the lists one omission or one exchange away from it
CheckOrders ==
  {Checks} \cup {Without(Checks, i) : i \in 1..Len(Checks)}
           \cup {Swapped(Checks, i) : i \in 1..(Len(Checks) - 1)}

---------------------------------------------------------------------------
(* info: for each record of the file, every check in order; then           *)
(* print_stats.  An exception a check raises ends the program.             *)

\* stats = {'filename': filename}
Init ==
  /\ file \in Files
  /\ checks = Checks
  /\ rec = 0
  /\ ci = 0
  /\ pc = "fetch"
  /\ error = "none"
  /\ stats = (k_filename :> "in.fasta")

\* the same program run over a check list of CheckOrders
InitReordered ==
  /\ file \in FilesUpTo(ReorderedRecords)
  /\ checks \in CheckOrders
  /\ rec = 0
  /\ ci = 0
  /\ pc = "fetch"
  /\ error = "none"
  /\ stats = (k_filename :> "in.fasta")

\* for record in SeqIO.parse(fh, "fasta"): the next record
NextRecord ==
  /\ pc = "fetch"
  /\ rec < Len(file)
  /\ rec' = rec + 1
  /\ ci' = 1
  /\ pc' = "check"
  /\ UNCHANGED <<file, checks, error, stats>>

\* the parser is exhausted: the loop ends and print_stats is called
EndOfFile ==
  /\ pc = "fetch"
  /\ rec = Len(file)
  /\ pc' = "print"
  /\ UNCHANGED <<file, checks, rec, ci, error, stats>>

\* c(record, stats) for the check at position ci, given its outcome
Step(outcome) ==
  /\ stats' = outcome.stats
  /\ IF outcome.raised
       THEN /\ pc' = "raised"
            /\ error' = "AssertionError"
            /\ UNCHANGED ci
       ELSE /\ error' = error
            /\ IF ci < Len(checks)
                 THEN ci' = ci + 1 /\ pc' = "check"
                 ELSE ci' = 0 /\ pc' = "fetch"
  /\ UNCHANGED <<file, checks, rec>>

\* the check at position ci is the one named
At(name) == pc = "check" /\ checks[ci] = name

Count ==
  At("count") /\ Step(count(file[rec], stats))

ComputeCharacterDistribution ==
  At("compute_character_distribution")
  /\ Step(compute_character_distribution(file[rec], stats))

ComputeCharacterPositions ==
  At("compute_character_positions")
  /\ Step(compute_character_positions(file[rec], stats))

DetectSequenceType ==
  At("detect_sequence_type") /\ Step(detect_sequence_type(file[rec], stats))

DetectAmbiguousAndSpecialCharacters ==
  At("detect_ambiguous_and_special_characters")
  /\ Step(detect_ambiguous_and_special_characters(file[rec], stats))

SetSequenceCategoryName ==
  At("set_sequence_category_name")
  /\ Step(set_sequence_category_name(file[rec], stats))

CountSequenceTypes ==
  At("count_sequence_types") /\ Step(count_sequence_types(file[rec], stats))

CountSequencesWithSpecialCharacters ==
  At("count_sequences_with_special_characters")
  /\ Step(count_sequences_with_special_characters(file[rec], stats))

CountSequencesWithAmbiguousCharacters ==
  At("count_sequences_with_ambiguous_characters")
  /\ Step(count_sequences_with_ambiguous_characters(file[rec], stats))

CountSequencesWithUnknownCharacters ==
  At("count_sequences_with_unknown_characters")
  /\ Step(count_sequences_with_unknown_characters(file[rec], stats))

ClearTemporaryFields ==
  At("clear_tempary_fields") /\ Step(clear_tempary_fields(file[rec], stats))

\* print_stats reads stats['filename'], stats['sequences'] and
\* stats['type_counts'] and raises KeyError for the first that is absent; it
\* writes nothing to stats.
PrintStats ==
  /\ pc = "print"
  /\ IF {k_filename, k_sequences, k_type_counts} \subseteq DOMAIN stats
       THEN pc' = "done" /\ error' = error
       ELSE pc' = "raised" /\ error' = "KeyError"
  /\ UNCHANGED <<file, checks, rec, ci, stats>>

Next ==
  \/ NextRecord
  \/ EndOfFile
  \/ Count
  \/ ComputeCharacterDistribution
  \/ ComputeCharacterPositions
  \/ DetectSequenceType
  \/ DetectAmbiguousAndSpecialCharacters
  \/ SetSequenceCategoryName
  \/ CountSequenceTypes
  \/ CountSequencesWithSpecialCharacters
  \/ CountSequencesWithAmbiguousCharacters
  \/ CountSequencesWithUnknownCharacters
  \/ ClearTemporaryFields
  \/ PrintStats

Spec == Init /\ [][Next]_vars

SpecReordered == InitReordered /\ [][Next]_vars

---------------------------------------------------------------------------
(* Vocabulary of the properties. *)

\* the distinct characters of a record, upper-cased
CharsOf(record) == {UpperChar(record[i]) : i \in DOMAIN record}

\* the place of a check in the list of info
Position(name) == CHOOSE i \in DOMAIN Checks : Checks[i] = name

\* the check `name` has run on the current record and the transient fields
\* are still there (clear_tempary_fields, the last check, has not run)
After(name) == pc = "check" /\ checks = Checks /\ ci > Position(name)

\* the rec-th record has been through the whole check list
RecordDone == pc \in {"fetch", "print"}

\* the transient fields the pipeline computes for one record
Classified(record) ==
  LET s1 == compute_character_distribution(record, EmptyDict).stats
      s2 == detect_sequence_type(record, s1).stats
      s3 == detect_ambiguous_and_special_characters(record, s2).stats
  IN set_sequence_category_name(record, s3).stats

\* every character an alphabet lists or a record can hold
AllChars ==
  {UpperChar(c) : c \in Chars} \cup UNION {set(a.all_chars) : a \in Alphabet}

---------------------------------------------------------------------------
(* C1 *)

\* C1: the file ACGT, ACGU, ACGN, XYZ* ends with a sequence count of 4 and
\* the type counts {"DNA (unambiguous)":1, "RNA (unambiguous)":1,
\* "DNA (ambiguous)":1, "OTHER (ambiguous)":1}.
C1_EndToEnd ==
  (file = EndToEndFile /\ pc = "print") =>
    /\ stats[k_sequences] = 4
    /\ stats[k_type_counts] =
         ("DNA (unambiguous)" :> 1 @@ "RNA (unambiguous)" :> 1
          @@ "DNA (ambiguous)" :> 1 @@ "OTHER (ambiguous)" :> 1)

(* C2 *)

\* C2: a record whose upper-cased characters are all of {A,U,G,C} and
\* include U gets the label "RNA (unambiguous)"; a record of {A,G,C} alone
\* is detected as DNA.
C2_RnaUnambiguous ==
  After("set_sequence_category_name") =>
    LET present == CharsOf(file[rec]) IN
    /\ (present \subseteq {"A","U","G","C"} /\ "U" \in present)
         => stats[k_category_name] = "RNA (unambiguous)"
    /\ present \subseteq {"A","G","C"} => stats[k_type].name = "DNA"

(* C3 *)

\* the letters A, T, G, C in either case
DnaLetters == {"A","T","G","C","a","t","g","c"}

\* C3: a record written only in A, T, G, C of either case (the empty record
\* included) is detected as DNA, flagged exactly {unambiguous} and labelled
\* "DNA (unambiguous)".
C3_DnaUnambiguous ==
  (After("set_sequence_category_name")
     /\ \A i \in DOMAIN file[rec] : file[rec][i] \in DnaLetters) =>
    /\ stats[k_type] = Alphabet_DNA
    /\ stats[k_type_flags] = {"unambiguous"}
    /\ stats[k_category_name] = "DNA (unambiguous)"

\* a mixed-case DNA record of several characters has been labelled
C3_Witness ==
  /\ After("set_sequence_category_name")
  /\ Len(file[rec]) >= 2
  /\ \A i \in DOMAIN file[rec] : file[rec][i] \in DnaLetters
  /\ \E i, j \in DOMAIN file[rec] : file[rec][i] = "a" /\ file[rec][j] = "T"
  /\ stats[k_category_name] = "DNA (unambiguous)"

(* C4 *)

\* the first of DNA, RNA, AA whose all_chars holds every character of
\* present, else OTHER
FirstMatchingClass(present) ==
  IF present \subseteq set(Alphabet_DNA.all_chars) THEN "DNA"
  ELSE IF present \subseteq set(Alphabet_RNA.all_chars) THEN "RNA"
  ELSE IF present \subseteq set(Alphabet_AA.all_chars) THEN "AA"
  ELSE "OTHER"

\* C4: detect_sequence_type assigns the first class in the order DNA, RNA,
\* AA whose all_chars contains every distinct character of the record, and
\* OTHER exactly when none does; contains_only is the subset test.
C4_FirstMatchingClass ==
  After("detect_sequence_type") =>
    /\ stats[k_type].name = FirstMatchingClass(CharsOf(file[rec]))
    /\ \A a \in {Alphabet_DNA, Alphabet_RNA, Alphabet_AA} :
         contains_only(stats[k_character_distribution], a.all_chars)
           <=> CharsOf(file[rec]) \subseteq set(a.all_chars)

(* C5 *)

\* C5: the flags are {unambiguous} when every character of the record is in
\* the detected class's unambiguous set; otherwise they hold "ambiguous"
\* iff a character of its ambiguous set occurs and "special" iff a
\* character of its special set occurs.  A record of DNA unambiguous
\* characters with one of N,R,Y,S,W,K,M,B,D,H,V is flagged ambiguous, and
\* with "-" too it is flagged ambiguous and special.
C5_Flags ==
  After("detect_ambiguous_and_special_characters") =>
    LET alphabet == stats[k_type]
        present == CharsOf(file[rec])
        flags == stats[k_type_flags]
        dna == set(_dna_unamb_chars) \cup set(_dna_amb_chars)
    IN /\ present \subseteq set(alphabet.unambiguous_chars) => flags = {"unambiguous"}
       /\ ~(present \subseteq set(alphabet.unambiguous_chars)) =>
            /\ "unambiguous" \notin flags
            /\ "ambiguous" \in flags <=> present \cap set(alphabet.ambiguous_chars) # {}
            /\ "special" \in flags <=> present \cap set(alphabet.special_chars) # {}
       /\ flags \subseteq {"unambiguous", "ambiguous", "special"}
       /\ (present \subseteq dna /\ present \cap set(_dna_amb_chars) # {})
            => flags = {"ambiguous"}
       /\ (present \subseteq dna \cup {"-"} /\ present \cap set(_dna_amb_chars) # {}
             /\ "-" \in present)
            => flags = {"ambiguous", "special"}

\* a record with A, N and "-" has been flagged ambiguous and special
C5_Witness ==
  /\ After("detect_ambiguous_and_special_characters")
  /\ CharsOf(file[rec]) = {"A", "N", "-"}
  /\ stats[k_type_flags] = {"ambiguous", "special"}

(* C6 *)

\* C6: the dictionary handed to print_stats holds no key that begins with
\* "_", whatever the records of the file (none included).
C6_NoTemporaryFieldAtPrint ==
  pc = "print" => \A k \in DOMAIN stats : k[1] # "_"

\* print_stats is reached after several records went through the checks
C6_Witness ==
  /\ pc = "print"
  /\ rec >= 2
  /\ k_type_counts \in DOMAIN stats

(* C7 *)

\* the key 'lengths', which no check of main.py writes
k_lengths == <<"l", "engths">>

RECURSIVE ClassifiedUpTo(_)
ClassifiedUpTo(n) ==
  IF n = 0 THEN <<>> ELSE Append(ClassifiedUpTo(n - 1), Classified(file[n]))

\* the entry fieldname[L][c] is there iff a processed record counts for it
\* (it has label L and contains c, c in the list chars_of gives for its
\* class), and is the number of those records, at least 1 and at most
\* type_counts[L]
TallyIsRecordCount(fieldname, chars_of(_)) ==
  LET field == IF fieldname \in DOMAIN stats THEN stats[fieldname] ELSE EmptyDict
      done == ClassifiedUpTo(rec)
      labels == DOMAIN field \cup {done[i][k_category_name] : i \in 1..rec}
  IN \A L \in labels, c \in AllChars :
       LET n == Cardinality({i \in 1..rec :
                               /\ done[i][k_category_name] = L
                               /\ c \in DOMAIN done[i][k_character_distribution]
                               /\ c \in set(chars_of(done[i][k_type]))})
           there == L \in DOMAIN field /\ c \in DOMAIN field[L]
       IN /\ there <=> n >= 1
          /\ there => /\ field[L][c] = n
                      /\ field[L][c] >= 1
                      /\ field[L][c] <= stats[k_type_counts][L]

special_chars_of(a) == a.special_chars
ambiguous_chars_of(a) == a.ambiguous_chars

\* C8: after any records, special_char_count[L][c] (ambiguous_char_count
\* likewise) is present iff a processed record had label L and contained c,
\* c in its class's special (ambiguous) set; its value is the number of such
\* records, never 0 and never more than type_counts[L].
C8_TalliesCountRecords ==
  RecordDone =>
    /\ TallyIsRecordCount(k_special_char_count, special_chars_of)
    /\ TallyIsRecordCount(k_ambiguous_char_count, ambiguous_chars_of)

\* two records labelled "DNA (special)" are through, one holding "-" twice
C8_Witness ==
  /\ pc = "print"
  /\ \E i \in 1..rec : file[i] = <<"-", "-">>
  /\ k_special_char_count \in DOMAIN stats
  /\ "DNA (special)" \in DOMAIN stats[k_special_char_count]
  /\ "-" \in DOMAIN stats[k_special_char_count]["DNA (special)"]
  /\ stats[k_special_char_count]["DNA (special)"]["-"] = 2
  /\ stats[k_type_counts]["DNA (special)"] = 2

(* C9 *)

\* C9: in every alphabet class (DNA, RNA, AA, AA_NC, OTHER, and so the class
\* a record is detected as) the unambiguous, ambiguous and special sets are
\* pairwise disjoint, so all_chars lists no character twice.
C9_PairwiseDisjoint ==
  \A a \in Alphabet \cup (IF k_type \in DOMAIN stats THEN {stats[k_type]} ELSE {}) :
    /\ set(a.unambiguous_chars) \cap set(a.ambiguous_chars) = {}
    /\ set(a.unambiguous_chars) \cap set(a.special_chars) = {}
    /\ set(a.ambiguous_chars) \cap set(a.special_chars) = {}
    /\ Cardinality(set(a.all_chars)) = Len(a.all_chars)

(* C10 *)

\* the transient fields a check reads
Requires(name) ==
  CASE name = "detect_sequence_type" -> {k_character_distribution}
    [] name = "detect_ambiguous_and_special_characters" ->
         {k_character_distribution, k_type}
    [] name = "set_sequence_category_name" -> {k_type, k_type_flags}
    [] name = "count_sequence_types" -> {k_type, k_type_flags, k_category_name}
    [] name \in {"count_sequences_with_special_characters",
                 "count_sequences_with_ambiguous_characters",
                 "count_sequences_with_unknown_characters"} ->
         {k_type, k_category_name, k_character_distribution}
    [] OTHER -> {}

===========================================================================
